---- MODULE Spec2Model ----
(***************************************************************************)
(* Model of pycytominer/operations/transform.py: the Spherize estimator    *)
(* (__init__, fit, transform) and the RobustMAD estimator (fit, transform).*)
(*                                                                         *)
(* Numbers.  Reference matrices hold small naturals.  Everything the code  *)
(* derives from them is kept exact: a column mean is the pair (column sum, *)
(* n), a variance is the numerator n*sum(x^2) - sum(x)^2 over n^2, a       *)
(* centred entry is the numerator n*x - sum over n.  np.linalg.matrix_rank *)
(* is the exact rank of the matrix (no rounding is modelled); scaling a    *)
(* column by a non-zero standard deviation does not change the rank, so    *)
(* the rank of the standardized matrix is the rank of the centred one.     *)
(* The singular values and vectors themselves are not computed: Sigma is   *)
(* the sequence of the positions of the singular values in decreasing      *)
(* order, and W records what it was built from.                            *)
(***************************************************************************)
EXTENDS Integers, Sequences, FiniteSets, TLC

\* ------------------------------------------------------------------ bounds
MaxN == 3        \* most rows of a reference matrix
MaxD == 2        \* most columns of a reference or query matrix

\* ------------------------------------------------------------- arithmetic
RECURSIVE SumSeq(_)
SumSeq(s) == IF s = <<>> THEN 0 ELSE Head(s) + SumSeq(Tail(s))

Abs(x) == IF x < 0 THEN -x ELSE x

Min(a, b) == IF a <= b THEN a ELSE b

NRows(X) == Len(X)

NCols(X) == Len(X[1])

Column(X, j) == [i \in 1..Len(X) |-> X[i][j]]

\* exact rank by fraction-free elimination on the rows
IsZeroRow(row) == \A j \in 1..Len(row) : row[j] = 0

PivotCol(row) == CHOOSE j \in 1..Len(row) :
                    row[j] # 0 /\ \A k \in 1..(j - 1) : row[k] = 0

Eliminate(p, c, q) == [j \in 1..Len(q) |-> p[c] * q[j] - q[c] * p[j]]

RECURSIVE RankRows(_)
RankRows(rows) ==
    IF rows = <<>> THEN 0
    ELSE IF IsZeroRow(Head(rows)) THEN RankRows(Tail(rows))
    ELSE LET p == Head(rows)
             c == PivotCol(p)
             rest == Tail(rows)
         IN  1 + RankRows([i \in 1..Len(rest) |-> Eliminate(p, c, rest[i])])

\* np.linalg.matrix_rank(X)
matrix_rank(X) == RankRows(X)

\* -------------------------------------------------------- input alphabets
\* values an entry of a reference matrix takes
Vals == {0, 1}

\* every n x d reference matrix over Vals, 1 <= n <= MaxN, 1 <= d <= MaxD
RefMatrices == UNION {[1..n -> [1..d -> Vals]] : n \in 1..MaxN, d \in 1..MaxD}

\* rectangular identity: full column rank when n > d, rank n - 1 once centred
\* when n <= d
Diag(n, d) == [i \in 1..n |-> [j \in 1..d |-> IF i = j THEN 1 ELSE 0]]

\* every column a copy of the first one
Dup(n, d) == [i \in 1..n |-> [j \in 1..d |-> IF i = 1 THEN 1 ELSE 0]]

\* the reference matrices of the life-cycle specification
LifeMatrices == {Diag(n, d) : n \in 1..MaxN, d \in 1..MaxD}
                \cup {Dup(n, d) : n \in 1..MaxN, d \in 1..MaxD}

Feature(j) == "f" \o ToString(j)

FeatureNames(k) == [j \in 1..k |-> Feature(j)]

Reversed(s) == [j \in 1..Len(s) |-> s[Len(s) + 1 - j]]

\* query tables: one row, k columns, labelled f1..fk in either order
QueriesOfWidth(k) ==
    {[columns |-> c, values |-> <<[j \in 1..k |-> j]>>] :
        c \in {FeatureNames(k), Reversed(FeatureNames(k))}}

Queries == UNION {QueriesOfWidth(k) : k \in 1..MaxD}

\* method arguments tried at construction: the four supported and one not
MethodArgs == {"PCA", "ZCA", "PCA-cor", "ZCA-cor", "LDA"}

\* epsilon arguments (kept symbolic)
Epsilons == {"0.0", "1e-6"}

\* ------------------------------------------------------------------ state
VARIABLES
    self,             \* the Spherize instance: its configuration attributes
    standard_scaler,  \* self.standard_scaler
    mean_centerer,    \* self.mean_centerer
    W,                \* self.W
    init_call,        \* the last Spherize(...) call and how it ended
    last_fit,         \* the last self.fit(X) call and how it ended
    last_transform,   \* the last self.transform(X) call since the last fit
    rm_epsilon,       \* the RobustMAD instance: self.epsilon
    rm_median,        \* RobustMAD self.median
    rm_mad,           \* RobustMAD self.mad
    rm_last           \* the last RobustMAD fit or transform call and its result

sph_vars == <<self, standard_scaler, mean_centerer, W, init_call, last_fit,
              last_transform>>

rm_vars == <<rm_epsilon, rm_median, rm_mad, rm_last>>

vars == <<sph_vars, rm_vars>>

\* an attribute that was never assigned
Unset == [set |-> FALSE]

NoInstance == [exists |-> FALSE]

NotCalled == [called |-> FALSE]

\* ------------------------------------------------------ Spherize.__init__
avail_methods == {"PCA", "ZCA", "PCA-cor", "ZCA-cor"}

CorMethods == {"PCA-cor", "ZCA-cor"}

ZcaMethods == {"ZCA", "ZCA-cor"}

PcaMethods == {"PCA", "PCA-cor"}

\* __init__ without its second check (lines 63-64 left out)
InitOutcome_NoCenterCheck(epsilon, center, method, return_numpy) ==
    IF method \notin avail_methods THEN "ValueError: method not supported"
    ELSE "ok"

\* the two checks of __init__; the name of the exception raised, or "ok"
InitOutcome(epsilon, center, method, return_numpy) ==
    IF method \notin avail_methods THEN "ValueError: method not supported"
    ELSE IF method \in CorMethods /\ ~center
         THEN "ValueError: cor requires center"
    ELSE "ok"

Construct(epsilon, center, method, return_numpy) ==
    LET out == InitOutcome(epsilon, center, method, return_numpy) IN
    /\ ~self.exists
    /\ init_call' = [called |-> TRUE, epsilon |-> epsilon, center |-> center,
                     method |-> method, return_numpy |-> return_numpy,
                     outcome |-> out]
    /\ self' = IF out = "ok"
               THEN [exists |-> TRUE, epsilon |-> epsilon, center |-> center,
                     return_numpy |-> return_numpy, method |-> method]
               ELSE NoInstance
    /\ UNCHANGED <<standard_scaler, mean_centerer, W, last_fit, last_transform>>
    /\ UNCHANGED rm_vars

\* ---------------------------------------------------------- StandardScaler
\* StandardScaler(with_mean=True, with_std=with_std).fit(X): the column means
\* (sum over n) and, with_std, the column variances (var_num over n^2; var_ is
\* None without with_std)
ScalerFit(X, with_std) ==
    LET n == NRows(X)
        d == NCols(X)
    IN  [set |-> TRUE,
         with_std |-> with_std,
         n_features_in |-> d,
         n_samples |-> n,
         mean_sum |-> [j \in 1..d |-> SumSeq(Column(X, j))],
         var_num |-> IF with_std
                     THEN [j \in 1..d |->
                             n * SumSeq([i \in 1..n |-> X[i][j] * X[i][j]])
                             - SumSeq(Column(X, j)) * SumSeq(Column(X, j))]
                     ELSE <<>>,
         fitted_on |-> X]

\* the numerators n*x - sum of the centred entries (the denominator is n)
CenteredNum(mean_sum, n, V) ==
    [i \in 1..Len(V) |-> [j \in 1..Len(V[i]) |-> n * V[i][j] - mean_sum[j]]]

\* scaler.transform(V) of a fitted scaler on a matrix with its column count:
\* the centred entries, to be divided by the scaler's deviations when with_std
ScalerTransform(scaler, V) ==
    [kind |-> IF scaler.with_std THEN "standardized" ELSE "centered",
     num |-> CenteredNum(scaler.mean_sum, scaler.n_samples, V),
     den |-> scaler.n_samples,
     var_num |-> IF scaler.with_std THEN scaler.var_num ELSE <<>>]

RawMatrix(V) == [kind |-> "raw", num |-> V, den |-> 1, var_num |-> <<>>]

\* ------------------------------------------------------------ Spherize.fit
\* np.any(variances == 0)
AnyZeroVariance(scaler) ==
    \E j \in 1..scaler.n_features_in : scaler.var_num[j] = 0

\* the matrix X of lines 103-116 (after standardization or centering)
Prepared(slf, X) ==
    IF slf.method \in CorMethods THEN ScalerTransform(ScalerFit(X, TRUE), X)
    ELSE IF slf.center THEN ScalerTransform(ScalerFit(X, FALSE), X)
    ELSE RawMatrix(X)

\* the rank gate comparing r with n instead of n - 1
RankGateFails_AgainstN(r, n, d) == (r # n) /\ (r # d)

\* the rank gate: the condition under which fit raises the rank error
RankGateFails(r, n, d) == (r # n - 1) /\ (r # d)

\* Sigma of np.linalg.svd(X, full_matrices=True) for an n x d matrix: min(n, d)
\* singular values in decreasing order, named by their position
svd_Sigma(n, d) == [i \in 1..Min(n, d) |-> i]

\* s[i] with Python's 0-based index, a negative one counting from the end
PyIndex(s, i) == IF i >= 0 THEN s[i + 1] ELSE s[Len(s) + i + 1]

\* np.concatenate((Sigma[0:r], np.repeat(Sigma[r - 1], d - r)))
ExtendSigma(Sigma, r, d) ==
    SubSeq(Sigma, 1, Min(r, Len(Sigma)))
    \o [i \in 1..(d - r) |-> PyIndex(Sigma, r - 1)]

\* Vt / Sigma[:, np.newaxis] broadcasts a (len, 1) column against (d, d)
Broadcastable(len, d) == len = d \/ len = 1

\* (Vt / Sigma[:, np.newaxis]).transpose() * np.sqrt(n - 1), Vt and Sigma those
\* of the prepared X
PcaW(slf, X, Sigma) ==
    [set |-> TRUE,
     shape |-> <<NCols(X), NCols(X)>>,
     Sigma |-> Sigma,
     epsilon |-> slf.epsilon,
     n_minus_1 |-> NRows(X) - 1,
     rotated |-> FALSE,
     fitted_on |-> X]

\* self.W @ Vt
RotateW(w) == [w EXCEPT !.rotated = TRUE]

\* the ZCA branch with its assertion left out
ZcaPossible_Unchecked(r, d) == TRUE

\* assert r == d, "ZCA is not possible if rank is not d"
ZcaPossible(r, d) == r = d

FitReturn(X, outcome, reached_gate, r, Sigma_svd, Sigma) ==
    [called |-> TRUE, X |-> X, outcome |-> outcome, n |-> NRows(X),
     d |-> NCols(X), reached_gate |-> reached_gate, r |-> r,
     Sigma_svd |-> Sigma_svd, Sigma |-> Sigma]

\* one run of fit on the instance (slf, ss, mc, w): the attributes it leaves
\* and what the call reports
FitRun(slf, ss, mc, w, X) ==
    LET cor == slf.method \in CorMethods
        ss1 == IF cor THEN ScalerFit(X, TRUE) ELSE ss
        mc1 == IF ~cor /\ slf.center THEN ScalerFit(X, FALSE) ELSE mc
        n == NRows(X)
        d == NCols(X)
        r == matrix_rank(Prepared(slf, X).num)
        Sigma0 == svd_Sigma(n, d)
        Sigma1 == IF n <= d THEN ExtendSigma(Sigma0, r, d) ELSE Sigma0
        W1 == PcaW(slf, X, Sigma1)
        W2 == IF slf.method \in ZcaMethods THEN RotateW(W1) ELSE W1
        End(w_left, outcome, reached, rr, s0, s1) ==
            [standard_scaler |-> ss1, mean_centerer |-> mc1, W |-> w_left,
             ret |-> FitReturn(X, outcome, reached, rr, s0, s1)]
    IN  IF cor /\ AnyZeroVariance(ss1)
        THEN End(w, "ValueError: zero variance", FALSE, -1, <<>>, <<>>)
        ELSE IF RankGateFails(r, n, d)
        THEN End(w, "ValueError: not full rank", TRUE, r, <<>>, <<>>)
        ELSE IF n <= d /\ Len(Sigma0) # n
        THEN End(w, "AssertionError: Sigma shape", TRUE, r, Sigma0, <<>>)
        ELSE IF n <= d /\ r # n - 1
        THEN End(w, "AssertionError: Unexpected rank", TRUE, r, Sigma0, <<>>)
        ELSE IF ~Broadcastable(Len(Sigma1), d)
        THEN End(w, "ValueError: broadcast", TRUE, r, Sigma0, Sigma1)
        ELSE IF slf.method \in ZcaMethods /\ ~ZcaPossible(r, d)
        THEN End(W1, "AssertionError: ZCA", TRUE, r, Sigma0, Sigma1)
        ELSE IF W2.shape[2] # d
        THEN End(W2, "AssertionError: W columns", TRUE, r, Sigma0, Sigma1)
        ELSE End(W2, "ok", TRUE, r, Sigma0, Sigma1)

Fit(X) ==
    LET run == FitRun(self, standard_scaler, mean_centerer, W, X) IN
    /\ self.exists
    /\ standard_scaler' = run.standard_scaler
    /\ mean_centerer' = run.mean_centerer
    /\ W' = run.W
    /\ last_fit' = run.ret
    /\ last_transform' = NotCalled
    /\ UNCHANGED <<self, init_call>>
    /\ UNCHANGED rm_vars

\* ------------------------------------------------------ Spherize.transform
\* the labels counted from 0: range(k) instead of range(1, k + 1)
PCLabels_FromZero(k) == [i \in 1..k |-> "PC" \o ToString(i - 1)]

\* ["PC" + str(i) for i in range(1, k + 1)]
PCLabels(k) == [i \in 1..k |-> "PC" \o ToString(i)]

\* sklearn's check of the query's column count against n_features_in_
FeatureCountOk(scaler, k) == k = scaler.n_features_in

\* a product that accepts every width
MatmulDefined_AnyWidth(k, w) == TRUE

\* X @ self.W is defined when X's column count is W's row count
MatmulDefined(k, w) == k = w.shape[1]

\* fit_transform in place of transform: the query's own statistics
ApplyScaler_Refit(scaler, Q) ==
    ScalerTransform(ScalerFit(Q.values, scaler.with_std), Q.values)

\* the statistics transform applies to the query: those of the fitted scaler
ApplyScaler(scaler, Q) == ScalerTransform(scaler, Q.values)

TransformReturn(Q, outcome, result) ==
    [called |-> TRUE, Q |-> Q, outcome |-> outcome, result |-> result]

NoResult == [repr |-> "none"]

\* one run of transform: what the call reports (it assigns no attribute)
TransformRun(slf, ss, mc, w, Q) ==
    LET k == NCols(Q.values)
        cor == slf.method \in CorMethods
        scaled == cor \/ slf.center
        scaler == IF cor THEN ss ELSE mc
        Xc == IF scaled THEN ApplyScaler(scaler, Q) ELSE RawMatrix(Q.values)
        columns == IF slf.method \in PcaMethods THEN PCLabels(k) ELSE Q.columns
        XW == [X |-> Xc, W |-> w, shape |-> <<NRows(Q.values), w.shape[2]>>]
    IN  IF scaled /\ ~scaler.set
        THEN TransformReturn(Q, "AttributeError: scaler", NoResult)
        ELSE IF scaled /\ ~FeatureCountOk(scaler, k)
        THEN TransformReturn(Q, "ValueError: n_features", NoResult)
        ELSE IF ~w.set
        THEN TransformReturn(Q, "AttributeError: W", NoResult)
        ELSE IF ~MatmulDefined(k, w)
        THEN TransformReturn(Q, "ValueError: matmul", NoResult)
        ELSE IF slf.return_numpy
        THEN TransformReturn(Q, "ok", [repr |-> "ndarray", values |-> XW,
                                       columns |-> <<>>])
        ELSE IF Len(columns) # XW.shape[2]
        THEN TransformReturn(Q, "ValueError: columns", NoResult)
        ELSE TransformReturn(Q, "ok", [repr |-> "DataFrame", values |-> XW,
                                       columns |-> columns])

Transform(Q) ==
    /\ self.exists
    /\ last_transform' = TransformRun(self, standard_scaler, mean_centerer, W, Q)
    /\ UNCHANGED <<self, standard_scaler, mean_centerer, W, init_call, last_fit>>
    /\ UNCHANGED rm_vars

\* ---------------------------------------------------------------- RobustMAD
\* epsilon arguments of RobustMAD (kept symbolic)
RmEpsilons == {"0.0", "1e-18"}

Range(s) == {s[j] : j \in 1..Len(s)}

\* the strictly increasing choices of d of the features f1..f(MaxD)
ColumnChoices(d) ==
    {[j \in 1..d |-> Feature(pick[j])] :
        pick \in {p \in [1..d -> 1..MaxD] :
                     \A a \in 1..d, b \in 1..d : a < b => p[a] < p[b]}}

\* labelled tables with n rows and d columns over Vals
TablesOfShape(n, d) ==
    {[columns |-> c, values |-> V] :
        c \in ColumnChoices(d), V \in [1..n -> [1..d -> Vals]]}

Tables == UNION {TablesOfShape(n, d) : n \in 1..MaxN, d \in 1..MaxD}

\* the column of table T labelled c
LabelledColumn(T, c) ==
    Column(T.values, CHOOSE j \in 1..Len(T.columns) : T.columns[j] = c)

\* the k-th smallest entry of s
KthSmallest(s, k) ==
    CHOOSE v \in Range(s) :
        /\ Cardinality({i \in 1..Len(s) : s[i] < v}) < k
        /\ k <= Cardinality({i \in 1..Len(s) : s[i] <= v})

\* twice the median of s (the mean of the two middle entries when Len(s) is even)
Median2(s) ==
    LET n == Len(s) IN
    IF n % 2 = 1 THEN 2 * KthSmallest(s, (n + 1) \div 2)
    ELSE KthSmallest(s, n \div 2) + KthSmallest(s, n \div 2 + 1)

\* X.median(): a series indexed by the column labels (values doubled)
RmMedian(T) ==
    [set |-> TRUE, index |-> Range(T.columns),
     med2 |-> [c \in Range(T.columns) |-> Median2(LabelledColumn(T, c))]]

\* pd.Series(median_abs_deviation(X, scale=1/1.4826), index=self.median.index):
\* mad4[c] is four times the median of |x - median|, to be divided by scale
RmMad(T) ==
    [set |-> TRUE, index |-> Range(T.columns), scale |-> "1/1.4826",
     mad4 |-> [c \in Range(T.columns) |->
                 LET col == LabelledColumn(T, c)
                     m2 == Median2(col)
                 IN  Median2([i \in 1..Len(col) |-> Abs(2 * col[i] - m2)])]]

RmFit(T) ==
    /\ rm_median' = RmMedian(T)
    /\ rm_mad' = RmMad(T)
    /\ rm_last' = [called |-> TRUE, op |-> "fit", X |-> T, outcome |-> "ok",
                   result |-> [columns |-> {}, cells |-> <<>>]]
    /\ UNCHANGED rm_epsilon
    /\ UNCHANGED sph_vars

\* (X - self.median) / (self.mad + self.epsilon): pandas aligns the series on
\* the table's column labels; the result has the union of the labels, and a
\* column that is not on both sides is all NaN
RmCell(T, i, c, median, mad, epsilon) ==
    IF c \in Range(T.columns) /\ c \in median.index /\ c \in mad.index
    THEN [nan |-> FALSE,
          num2 |-> 2 * LabelledColumn(T, c)[i] - median.med2[c],
          mad4 |-> mad.mad4[c], scale |-> mad.scale, epsilon |-> epsilon]
    ELSE [nan |-> TRUE]

RmTransformRun(T, median, mad, epsilon) ==
    IF ~median.set \/ ~mad.set
    THEN [called |-> TRUE, op |-> "transform", X |-> T,
          outcome |-> "AttributeError",
          result |-> [columns |-> {}, cells |-> <<>>]]
    ELSE LET cols == Range(T.columns) \cup median.index \cup mad.index IN
         [called |-> TRUE, op |-> "transform", X |-> T, outcome |-> "ok",
          result |-> [columns |-> cols,
                      cells |-> [i \in 1..NRows(T.values) |->
                                   [c \in cols |->
                                      RmCell(T, i, c, median, mad, epsilon)]]]]

RmTransform(T) ==
    /\ rm_last' = RmTransformRun(T, rm_median, rm_mad, rm_epsilon)
    /\ UNCHANGED <<rm_epsilon, rm_median, rm_mad>>
    /\ UNCHANGED sph_vars

\* ---------------------------------------------------------- specifications
RmIdle ==
    /\ rm_epsilon \in {"1e-18"}
    /\ rm_median = Unset
    /\ rm_mad = Unset
    /\ rm_last = NotCalled

Init ==
    /\ self = NoInstance
    /\ standard_scaler = Unset
    /\ mean_centerer = Unset
    /\ W = Unset
    /\ init_call = NotCalled
    /\ last_fit = NotCalled
    /\ last_transform = NotCalled
    /\ RmIdle

Next ==
    \/ \E e \in Epsilons, c \in BOOLEAN, m \in MethodArgs, rn \in BOOLEAN :
          Construct(e, c, m, rn)
    \/ \E X \in LifeMatrices : Fit(X)
    \/ \E Q \in Queries : Transform(Q)

\* the life cycle of one instance: construction, fits and transforms in any
\* order
Spec == Init /\ [][Next]_vars

\* a freshly constructed instance of any accepted configuration
InitFit ==
    /\ \E e \in Epsilons, c \in BOOLEAN, m \in avail_methods, rn \in BOOLEAN :
          /\ InitOutcome(e, c, m, rn) = "ok"
          /\ self = [exists |-> TRUE, epsilon |-> e, center |-> c,
                     return_numpy |-> rn, method |-> m]
          /\ init_call = [called |-> TRUE, epsilon |-> e, center |-> c,
                          method |-> m, return_numpy |-> rn, outcome |-> "ok"]
    /\ standard_scaler = Unset
    /\ mean_centerer = Unset
    /\ W = Unset
    /\ last_fit = NotCalled
    /\ last_transform = NotCalled
    /\ RmIdle

NextFit == \E X \in RefMatrices : ~last_fit.called /\ Fit(X)

\* the first fit of a fresh instance, on every reference matrix
SpecFit == InitFit /\ [][NextFit]_vars

\* a freshly constructed RobustMAD instance
InitMAD ==
    /\ self = NoInstance
    /\ standard_scaler = Unset
    /\ mean_centerer = Unset
    /\ W = Unset
    /\ init_call = NotCalled
    /\ last_fit = NotCalled
    /\ last_transform = NotCalled
    /\ rm_epsilon \in RmEpsilons
    /\ rm_median = Unset
    /\ rm_mad = Unset
    /\ rm_last = NotCalled

NextMAD ==
    \/ \E T \in Tables : RmFit(T)
    \/ \E T \in Tables : RmTransform(T)

\* the life cycle of one RobustMAD instance
SpecMAD == InitMAD /\ [][NextMAD]_vars
\* ------------------------------------------------------------------ claims
\* the scaler transform applies under the instance's configuration
ScalerInUse ==
    IF self.method \in CorMethods THEN standard_scaler
    ELSE IF self.center THEN mean_centerer
    ELSE Unset

HasTwoIdenticalColumns(X) ==
    \E a \in 1..NCols(X), b \in 1..NCols(X) :
        a # b /\ Column(X, a) = Column(X, b)

PcaTwin(method) == IF method = "ZCA" THEN "PCA"
                   ELSE IF method = "ZCA-cor" THEN "PCA-cor"
                   ELSE method

\* C1: a fit that reaches the rank check fails with the rank error exactly when
\* r # d and r # n - 1; a fit that stops before the check fails with the
\* zero-variance error; a matrix with two identical columns and more rows than
\* columns that reaches the check is rejected.
C1_RankGate ==
    last_fit.called =>
        /\ last_fit.reached_gate =>
              ((last_fit.outcome = "ValueError: not full rank")
                  <=> (last_fit.r # last_fit.d /\ last_fit.r # last_fit.n - 1))
        /\ ~last_fit.reached_gate =>
              last_fit.outcome = "ValueError: zero variance"
        /\ (/\ last_fit.reached_gate
            /\ HasTwoIdenticalColumns(last_fit.X)
            /\ last_fit.n > last_fit.d) =>
              last_fit.outcome = "ValueError: not full rank"

\* C1 witness: a matrix with two identical columns and n > d reached the rank
\* check with r = d - 1 and was rejected.
C1_Witness ==
    /\ last_fit.called
    /\ last_fit.reached_gate
    /\ HasTwoIdenticalColumns(last_fit.X)
    /\ last_fit.n > last_fit.d
    /\ last_fit.r = last_fit.d - 1
    /\ last_fit.outcome = "ValueError: not full rank"

\* C2 (as claimed): after a fit that failed, no following transform returns a
\* result (a result is always computed from self.W).
C2_NoResultAfterFailedFit ==
    (last_fit.called /\ last_fit.outcome # "ok") =>
        ~(last_transform.called /\ last_transform.outcome = "ok")

\* C3: on an instance that holds W, a transform of a query whose column count
\* differs from that of the matrix W was fitted on ends in a shape error
\* (sklearn's feature-count error or numpy's matmul error) and returns nothing.
C3_WidthMismatchRejected ==
    (/\ last_transform.called
     /\ W.set
     /\ NCols(last_transform.Q.values) # NCols(W.fitted_on)) =>
        /\ last_transform.outcome
              \in {"ValueError: n_features", "ValueError: matmul"}
        /\ last_transform.result = NoResult

\* C3 witness: an uncentred instance fitted on d columns was given a query of
\* another width and the matrix product refused it.
C3_Witness ==
    /\ last_transform.called
    /\ W.set
    /\ ~self.center
    /\ NCols(last_transform.Q.values) # NCols(W.fitted_on)
    /\ last_transform.outcome = "ValueError: matmul"

\* C4 (as claimed): a RobustMAD transform of a query whose column identities
\* differ from those seen at fit does not return a result.
C4_ColumnIdentitiesChecked ==
    (/\ rm_last.called
     /\ rm_last.op = "transform"
     /\ rm_median.set
     /\ Range(rm_last.X.columns) # rm_median.index) =>
        rm_last.outcome # "ok"

\* C5: construction fails exactly when the method is not one of the four or is
\* a -cor method with center false, whatever epsilon and return_numpy are; an
\* instance that exists has one of the four methods, and center when -cor.
C5_ConfigurationGate ==
    /\ init_call.called =>
          /\ (init_call.outcome # "ok")
                <=> (\/ init_call.method \notin {"PCA", "ZCA", "PCA-cor", "ZCA-cor"}
                     \/ (init_call.method \in {"PCA-cor", "ZCA-cor"}
                         /\ ~init_call.center))
          /\ self.exists <=> (init_call.outcome = "ok")
    /\ self.exists =>
          /\ self.method \in {"PCA", "ZCA", "PCA-cor", "ZCA-cor"}
          /\ self.method \in {"PCA-cor", "ZCA-cor"} => self.center

\* C5 witness: PCA-cor with center false was refused.
C5_Witness ==
    /\ init_call.called
    /\ init_call.method = "PCA-cor"
    /\ ~init_call.center
    /\ init_call.outcome = "ValueError: cor requires center"
    /\ ~self.exists

\* C6: a transform step, returning or failing, leaves the configuration, both
\* scalers and W as they were; a returned result is the query centred or
\* standardized with the statistics the last fit left, multiplied by the W it
\* left; and repeating the query repeats the result.
C6_TransformReadOnly ==
    [][(last_transform'.called /\ last_transform' # last_transform) =>
          /\ UNCHANGED <<self, standard_scaler, mean_centerer, W>>
          /\ last_transform'.outcome = "ok" =>
                /\ last_transform'.result.values.X =
                      IF ScalerInUse.set
                      THEN ScalerTransform(ScalerInUse, last_transform'.Q.values)
                      ELSE RawMatrix(last_transform'.Q.values)
                /\ last_transform'.result.values.W = W
          /\ (last_transform.called /\ last_transform.Q = last_transform'.Q) =>
                last_transform' = last_transform]_vars

\* C6 witness: a centring instance returned the transform of a query that is
\* not a row of the matrix it was fitted on.
C6_Witness ==
    /\ last_transform.called
    /\ last_transform.outcome = "ok"
    /\ self.center
    /\ ScalerInUse.set
    /\ \A i \in 1..NRows(ScalerInUse.fitted_on) :
          ScalerInUse.fitted_on[i] # last_transform.Q.values[1]

\* C7: a returned transform has d = the fit-time column count columns; as a
\* table, PCA and PCA-cor label them PC1..PCd and ZCA and ZCA-cor keep the
\* query's labels in order; return_numpy picks the representation and the
\* values are those the other setting returns.
C7_OutputLabels ==
    (last_transform.called /\ last_transform.outcome = "ok") =>
        LET res == last_transform.result
            d == NCols(W.fitted_on)
            other == TransformRun([self EXCEPT !.return_numpy = ~self.return_numpy],
                                  standard_scaler, mean_centerer, W,
                                  last_transform.Q)
        IN  /\ res.values.shape[2] = d
            /\ res.repr = IF self.return_numpy THEN "ndarray" ELSE "DataFrame"
            /\ res.repr = "DataFrame" =>
                  /\ Len(res.columns) = d
                  /\ self.method \in {"PCA", "PCA-cor"} =>
                        \A i \in 1..d : res.columns[i] = "PC" \o ToString(i)
                  /\ self.method \in {"ZCA", "ZCA-cor"} =>
                        res.columns = last_transform.Q.columns
            /\ other.outcome = "ok"
            /\ other.result.values = res.values

\* C7 witness: a PCA instance fitted on two columns returned a table.
C7_Witness ==
    /\ last_transform.called
    /\ last_transform.outcome = "ok"
    /\ self.method = "PCA"
    /\ ~self.return_numpy
    /\ NCols(W.fitted_on) = 2
    /\ last_transform.result.columns = <<"PC1", "PC2">>

\* C8 (as claimed): a fit that passes the rank gate with n <= d has a Sigma of
\* length n and r = n - 1, fires neither assertion of the extension branch, and
\* leaves a Sigma of d entries, the first r followed by copies of the r-th.
C8_ExtensionAssertionsHold ==
    (/\ last_fit.called
     /\ last_fit.reached_gate
     /\ last_fit.outcome # "ValueError: not full rank"
     /\ last_fit.n <= last_fit.d) =>
        /\ Len(last_fit.Sigma_svd) = last_fit.n
        /\ last_fit.r = last_fit.n - 1
        /\ last_fit.outcome \notin {"AssertionError: Sigma shape",
                                    "AssertionError: Unexpected rank"}
        /\ Len(last_fit.Sigma) = last_fit.d
        /\ \A i \in 1..last_fit.d :
              last_fit.r >= 1 =>
                 last_fit.Sigma[i] = IF i <= last_fit.r
                                     THEN last_fit.Sigma_svd[i]
                                     ELSE last_fit.Sigma_svd[last_fit.r]

\* C9: a ZCA or ZCA-cor fit returns only if r = d; on a matrix that passes the
\* rank gate with r = n - 1 and r # d it stops at the full-rank assertion,
\* and the PCA or PCA-cor fit of that matrix returns.
C9_ZcaNeedsFullRank ==
    (last_fit.called /\ self.method \in {"ZCA", "ZCA-cor"}) =>
        /\ last_fit.outcome = "ok" => last_fit.r = last_fit.d
        /\ (/\ last_fit.reached_gate
            /\ last_fit.outcome # "ValueError: not full rank"
            /\ last_fit.r = last_fit.n - 1
            /\ last_fit.r # last_fit.d) =>
              /\ last_fit.outcome = "AssertionError: ZCA"
              /\ FitRun([self EXCEPT !.method = PcaTwin(self.method)],
                        Unset, Unset, Unset, last_fit.X).ret.outcome = "ok"

\* C9 witness: a ZCA fit of a matrix with r = n - 1 < d stopped at the
\* full-rank assertion.
C9_Witness ==
    /\ last_fit.called
    /\ self.method \in {"ZCA", "ZCA-cor"}
    /\ last_fit.r = last_fit.n - 1
    /\ last_fit.r # last_fit.d
    /\ last_fit.outcome = "AssertionError: ZCA"

\* C10 (as claimed): whenever the instance holds the scaler it applies and W,
\* both were learned from the same reference matrix.
C10_StateFromOneFit ==
    (self.exists /\ W.set /\ ScalerInUse.set) =>
        /\ ScalerInUse.fitted_on = W.fitted_on
        /\ ScalerInUse.n_features_in = W.shape[1]
====
